---- MODULE Spec2Model ----
(***************************************************************************)
(* ICE OUT: the sighting lifecycle.  The store is PostgreSQL behind        *)
(* PostgREST: every request is one statement in its own transaction at    *)
(* the default isolation level READ COMMITTED.  A row trigger runs inside *)
(* the transaction of the statement that fired it, each query of the      *)
(* (volatile) trigger function sees the rows committed so far plus the    *)
(* transaction's own changes, and everything the transaction wrote        *)
(* becomes visible to the others at its commit.                           *)
(***************************************************************************)
EXTENDS Integers, FiniteSets, Sequences, TLC

NULL == "null"
COMMITTED == "committed"

(* ---------------------------------------------------------------- bounds *)
\* validation rows ever deleted by the service session
MaxDeletes == 1

\* records of an import file
MaxRecords == 2
\* rows of public.sightings added through the report page
MaxReports == 1
\* fetchRole requests of one AuthProvider on their way at a time
MaxFetches == 2
\* realtime events on their way to one LiveMap at a time
MaxEvents == 2
\* entries of the local list of one LiveMap
MaxEntries == 3

(* ------------------------------------------------------ program constants *)
LatLimit == 90
LngLimit == 180
ActivityTypeMaxLen == 64
NotesMaxLen == 2000
HeaderLines == 2
HashMinLen == 16
HashMaxLen == 256
\* the limbs of the numbers that do not fit a machine word
Base == 65536
\* metres between two latitudes 0.01 degrees apart
RoundingGrid == 1113
ProximityRadius == 500
FingerprintMinLen == 16
FingerprintMaxLen == 256
VerifiedThreshold == 3
MediaThreshold == 2

(* ----------------------------------------------------------------- world *)
\* two sightings: s1 was reported without media, s2 with one attachment
Sightings == {"s1", "s2"}
SightingMedia == [s1 |-> 0, s2 |-> 1]
\* position of a sighting and of an observer: metres of arc along one meridian
SightingLat == [s1 |-> 0, s2 |-> 100000]
ObserverOffsets == {0, 500, 501}

\* browser tabs showing the home page
Tabs == {"t1", "t2"}
\* FingerprintJS visitorIds: of the devices the tabs may run on, and of two
\* devices that validated before the tabs were opened
VisitorIdA == "a3f1c09b7e2d4456a3f1c09b7e2d4456"
VisitorIdB == "0be4d2a17c3f98650be4d2a17c3f9865"
EarlierVisitorIds == {"77c0ffee5a1e4b1d77c0ffee5a1e4b1d",
                      "5d9e01b2c4a8f37b5d9e01b2c4a8f37b"}
\* the two tabs run on one device, or on two
Placements == {[t1 |-> VisitorIdA, t2 |-> VisitorIdA],
               [t1 |-> VisitorIdA, t2 |-> VisitorIdB]}
\* principals of auth.users: u0 is the bootstrap admin, u1 a trusted verifier,
\* u2 has no account yet; u3 has an account older than public.profiles and
\* its trigger, and so no profile
Users == {"u0", "u1", "u2", "u3"}
EarlierUsers == {"u3"}
\* signed-in principal of a tab (useAuth().user), NULL when anonymous
TabUser == [t1 |-> NULL, t2 |-> "u1"]
\* a browser showing the admin page, and the principal signed in there
Consoles == {"c0"}
ConsoleUser == [c0 |-> "u0"]
Clients == Tabs \cup Consoles
UserOf(c) == IF c \in Tabs THEN TabUser[c] ELSE ConsoleUser[c]
Roles == {"anonymous", "trusted", "admin"}
\* the service-role session (dashboard / SQL editor) that may delete rows
Service == "svc"
Sessions == Tabs \cup {Service}

(* ------------------------------------------------------------ UI messages *)
ErrOutOfRange == "You must be within 500 meters to validate this sighting."
ErrDuplicate == "You have already validated this sighting."
ErrDenied == "Location permission denied. Please enable location access to validate."
ErrLocation == "Unable to get your location. Please try again."
\* error.message of a PostgREST error that is not a unique violation
ErrStore == "new row violates row-level security policy"
ValidationErrors == {ErrOutOfRange, ErrDuplicate, ErrDenied, ErrLocation, ErrStore}
\* AdminPage: setError when useAuth().role is not 'admin'
ErrAccessDenied == "Access denied. Admin only."

\* responses of POST /api/invite-validator
ErrValidEmail == "Valid email required"
ErrAdminOnly == "Admin only"
ErrSessionRequired == "Session required (access_token, refresh_token)"
ErrInvalidSession == "Invalid session"
ErrInviteUser == "A user with this email address has already been registered"
MsgInviteSent == "Invite sent"

\* errors of the report page and of the import script
ErrSelectLocation == "Please select a location on the map or enable location access."
ErrActivityType == "Please enter an activity type."
ErrInvalidLatitude == "Invalid latitude"
ErrInvalidLongitude == "Invalid longitude"
ErrInvalidActivityType == "Invalid activity_type"
ErrNotesTooLong == "Notes too long"
ErrCheckViolation == "new row for relation \"sightings\" violates check constraint"
ErrFetchFailed == "fetch failed"

(* ------------------------------------------------------------------ emails *)
\* auth.users.email of each principal
UserEmail == [u0 |-> <<"r", "@", "x">>,
              u1 |-> <<"b", "@", "x">>,
              u2 |-> <<"A", "@", "x">>,
              u3 |-> <<"c", "@", "x">>]

\* what an admin types into the invite form
InviteInputs == {<<" ", "a", "@", "x">>,
                 <<"A", "@", "x", " ">>,
                 <<"B", "@", "x">>,
                 <<"a", "x">>,
                 <<" ">>}

LowerOf == [A |-> "a", B |-> "b"]

\* String.prototype.toLowerCase / lower()
ToLowerCase(str) ==
  [i \in 1..Len(str) |-> IF str[i] \in DOMAIN LowerOf THEN LowerOf[str[i]] ELSE str[i]]

RECURSIVE TrimStart(_)
TrimStart(str) ==
  IF str # <<>> /\ Head(str) = " " THEN TrimStart(Tail(str)) ELSE str

RECURSIVE TrimEnd(_)
TrimEnd(str) ==
  IF str # <<>> /\ str[Len(str)] = " "
    THEN TrimEnd(SubSeq(str, 1, Len(str) - 1))
    ELSE str

\* String.prototype.trim / trim()
Trim(str) == TrimEnd(TrimStart(str))

\* String.prototype.includes, for one character
Includes(str, ch) == \E i \in 1..Len(str) : str[i] = ch

VARIABLES
  visitorId,      \* per tab: what getDeviceFingerprint returns on its device
  sightings,      \* public.sightings: id -> [status, validations_count, media_len]
  validations,    \* public.validations: set of rows (xmin/xmax = writing session)
  profiles,       \* public.profiles: user -> role
  deletes,        \* rows deleted so far by the service session
  drawer,         \* per tab: the Sighting object the drawer was opened with
  pc,             \* per session: position inside its request
  txn,            \* per session: plpgsql variables of the trigger it is running
  validating,     \* SightingDrawer state
  validationError,
  validationSuccess,
  confirmSuccess,
  confirmError,
  hist,           \* history of a tab's current attempt, read by the properties only
  role,           \* per client: AuthProvider state role (what fetchRole last read)
  adminProfiles,  \* per console: AdminPage state profiles, NULL while not loaded
  adminError,     \* per console: AdminPage state error
  pendingInvites, \* public.pending_invites: set of rows
  inviteMessage,  \* per console: AdminPage state inviteMessage
  signIn,         \* the latest sign-in of each principal, read by the properties only
  consumed,       \* principals promoted by an invite, read by the properties only
  created,        \* rows added to public.sightings by the report page and the import
  reportForm,     \* ReportPage state error, success
  importRun,      \* importSightings: records.length, i, successCount, errors
  clock,          \* index into Times of the current millisecond
  storage,        \* the localStorage items ice_out_validator_token, one per device
  issued,         \* per device and sighting: what generateValidatorHash returned
                  \* last since the storage was cleared, read by the properties only
  response,       \* what POST /api/invite-validator answered last
  auth,           \* AuthProvider of one more browser: its state and its requests
  liveMap         \* LiveMap of that browser: its state and the events on their way

roleVars == <<role, adminProfiles, adminError>>
inviteVars == <<pendingInvites, inviteMessage, signIn, consumed>>
reportVars == <<created, reportForm, importRun>>
identVars == <<clock, storage, issued>>
pageVars == <<response, auth, liveMap>>
sideVars == <<roleVars, inviteVars, reportVars, identVars, pageVars>>

\* what the role requests leave alone
besideRoles == <<inviteVars, reportVars, identVars, pageVars>>
\* what sign-ins and invites leave alone, next to the lifecycle and the roles
besideInvites == <<reportVars, identVars, pageVars>>

vars == <<visitorId, sightings, validations, profiles, deletes, drawer, pc, txn,
          validating, validationError, validationSuccess, confirmSuccess,
          confirmError, hist, sideVars>>

\* the sighting lifecycle without the profiles
coreVars == <<visitorId, sightings, validations, deletes, drawer, pc, txn,
              validating, validationError, validationSuccess, confirmSuccess,
              confirmError, hist>>

\* what the report page and the import leave alone
besideReports == <<coreVars, profiles, roleVars, inviteVars, identVars, pageVars>>
\* what the legacy drawer leaves alone
besideLegacy == <<roleVars, inviteVars, reportVars, pageVars>>

dbVars == <<visitorId, sightings, validations, profiles, deletes>>
uiVars == <<validating, validationError, validationSuccess, confirmSuccess, confirmError>>

\* the sighting prop of a drawer that is not mounted
NoSighting == [id |-> NULL, status |-> NULL]

NoTxn == [sighting_id |-> NULL, v_count |-> 0, v_media_len |-> 0]

\* retry: the attempt in flight follows an out-of-range rejection in the same
\* drawer; raced: the tab's last attempt was in flight together with the other
\* tab's attempt on the same sighting while its own device had no committed
\* validation of that sighting
NoHist == [retry |-> FALSE, raced |-> FALSE]

(* ------------------------------------------------------------- geometry *)
Abs(x) == IF x < 0 THEN -x ELSE x

\* great-circle distance of two points on the same meridian
Distance(aLat, bLat) == Abs(aLat - bLat)

IsWithinProximity(aLat, bLat, radiusMeters) == Distance(aLat, bLat) <= radiusMeters

(* ------------------------------------------------------- validations table *)
\* rows a statement of session x sees: committed ones and its own inserts,
\* without the rows it deleted itself
VisibleRows(x) ==
  {r \in validations : (r.xmin = COMMITTED \/ r.xmin = x) /\ r.xmax # x}

\* rows of the table as of now for a reader outside any transaction
CommittedRows == {r \in validations : r.xmin = COMMITTED}

RowsOf(rows, sid) == {r \in rows : r.sighting_id = sid}

\* validations_device_fingerprint_len_chk and the insert policy
ValidationsInsertPolicy(row) ==
  /\ row.device_fingerprint # NULL
  /\ Len(row.device_fingerprint) >= FingerprintMinLen
  /\ Len(row.device_fingerprint) <= FingerprintMaxLen

\* a check that reads the table instead of the index sees committed rows only
IndexEntriesCommittedOnly(table) == {r \in table : r.xmin = COMMITTED}

\* validations_unique_device_per_sighting holds an entry for every row with a
\* fingerprint, those of transactions in progress included
IndexEntries(table) == {r \in table : r.device_fingerprint # NULL}

\* entries of the unique index that collide with row
UniqueConflicts(row, table) ==
  {r \in IndexEntries(table) : /\ r.sighting_id = row.sighting_id
                               /\ r.device_fingerprint = row.device_fingerprint}

(* ------------------------------------------- recompute_sighting_validations *)
\* select count(*) from validations where sighting_id = v_sighting_id
CountValidations(x, sid) == Cardinality(RowsOf(VisibleRows(x), sid))

\* the CASE of the first schema, before media lowered the threshold
StatusCaseV1(v_count, v_media_len) ==
  IF v_count >= VerifiedThreshold THEN "verified" ELSE "unverified"

\* the CASE expression of the update
StatusCase(v_count, v_media_len) ==
  IF v_count >= VerifiedThreshold THEN "verified"
  ELSE IF v_media_len > 0 /\ v_count >= MediaThreshold THEN "verified"
  ELSE "unverified"

\* an update without the guard on confirmed
UpdateWhereAny(row) == TRUE

\* where ... and status != 'confirmed'
UpdateWhere(row) == row.status # "confirmed"

\* an update that counts up instead of writing the count it read
UpdateSightingIncrement(row, v_count, v_media_len) ==
  IF UpdateWhere(row)
    THEN [row EXCEPT !.validations_count = row.validations_count + 1,
                     !.status = StatusCase(row.validations_count + 1, v_media_len)]
    ELSE row

\* an update that writes the count and leaves the status for later
UpdateSightingCountOnly(row, v_count, v_media_len) ==
  IF UpdateWhere(row)
    THEN [row EXCEPT !.validations_count = v_count]
    ELSE row
\* the update of the sighting row
UpdateSighting(row, v_count, v_media_len) ==
  IF UpdateWhere(row)
    THEN [row EXCEPT !.validations_count = v_count,
                     !.status = StatusCase(v_count, v_media_len)]
    ELSE row

\* the early return: never overwrite confirmed
SkipsRecompute(v_current_status) == v_current_status = "confirmed"

\* the whole trigger body run without interruption for a sighting row, when
\* v_count rows reference it
RecomputeSighting(row, v_count) ==
  IF SkipsRecompute(row.status)
    THEN row
    ELSE UpdateSighting(row, v_count, row.media_len)

(* ---------------------------------------------------------------- profiles *)
\* fetchRole: select role from profiles where id = userId; no row reads as
\* 'anonymous', and without a session the role is null
StoredRole(user, table) ==
  IF user = NULL THEN NULL
  ELSE IF table[user] = NULL THEN "anonymous"
  ELSE table[user]

\* the devices the tabs run on
Devices == {VisitorIdA, VisitorIdB}
\* localStorage.getItem returns null
NoToken == <<>>
\* generateValidatorHash has not been called
NoId == <<>>

\* importSightings is not running
NoImport == [pc |-> "idle"]

\* no request has reached POST /api/invite-validator
NoResponse == [status |-> 0]

\* AdminPage state profiles before load() has answered
NotLoaded == [loaded |-> FALSE, rows |-> <<>>]

\* policy profiles_update_admin (using / with check); the with check reads the
\* table as it was before the statement, so an admin may demote themself
ProfilesUpdatePolicy(user, table) ==
  user # NULL /\ table[user] = "admin"

\* rpc get_profiles_for_admin: every profile for an admin, no row otherwise
GetProfilesForAdmin(user, table) ==
  IF user # NULL /\ table[user] = "admin"
    THEN table
    ELSE [u \in Users |-> NULL]

\* the principal who signs in at the browser of the AuthProvider
AuthUser == "u1"

\* useState of AuthProvider (user, role), the session the client library
\* holds, getSession of init() not answered yet, no fetchRole on its way,
\* signOut not called
AuthInit == [user |-> NULL, role |-> NULL, session |-> NULL,
             init |-> "pending", fetches |-> 0, signOut |-> "idle"]

\* LiveMap as it mounts: useState (sightings, loading), the select of
\* loadSightings sent, the channel subscribed with no event on its way; and
\* the rows of public.sightings the map is about, none yet
LiveMapInit == [sightings |-> <<>>, loading |-> TRUE, load |-> "sent",
                data |-> <<>>, events |-> <<>>, table |-> {}]

(* ------------------------------------------------------------------ Init *)
\* the validations of s1 recorded earlier, from devices none of the tabs runs on
EarlierValidations ==
  {[id |-> <<fp, "s1">>,
    sighting_id |-> "s1",
    device_fingerprint |-> fp,
    is_within_range |-> TRUE,
    validator_id |-> NULL,
    xmin |-> COMMITTED,
    xmax |-> NULL] : fp \in EarlierVisitorIds}

\* both sightings were reported (status and validations_count from the column
\* defaults); s1 has been validated twice since, which leaves it unverified
Init ==
  /\ visitorId \in Placements
  /\ validations = EarlierValidations
  /\ sightings = [s \in Sightings |->
        [status |-> "unverified",
         validations_count |-> Cardinality(RowsOf(validations, s)),
         media_len |-> SightingMedia[s]]]
  /\ profiles = [u0 |-> "admin", u1 |-> "trusted", u2 |-> NULL, u3 |-> NULL]
  /\ deletes = 0
  /\ drawer = [t \in Tabs |-> NoSighting]
  /\ pc = [x \in Sessions |-> "idle"]
  /\ txn = [x \in Sessions |-> NoTxn]
  /\ validating = [t \in Tabs |-> FALSE]
  /\ validationError = [t \in Tabs |-> NULL]
  /\ validationSuccess = [t \in Tabs |-> FALSE]
  /\ confirmSuccess = [t \in Tabs |-> FALSE]
  /\ confirmError = [t \in Tabs |-> NULL]
  /\ hist = [t \in Tabs |-> NoHist]
  /\ role = [c \in Clients |-> StoredRole(UserOf(c), profiles)]
  /\ adminProfiles = [c \in Consoles |-> NotLoaded]
  /\ adminError = [c \in Consoles |-> NULL]
  /\ pendingInvites = {}
  /\ inviteMessage = [c \in Consoles |-> NULL]
  /\ signIn = {}
  /\ consumed = {}
  /\ created = {}
  /\ reportForm = [error |-> NULL, success |-> FALSE]
  /\ importRun = NoImport
  /\ clock = 1
  /\ storage = {}
  /\ issued = {}
  /\ response = NoResponse
  /\ auth = AuthInit
  /\ liveMap = LiveMapInit

(* ------------------------------------------------------ SightingDrawer view *)
\* const isConfirmed / isVerified of the drawer, from the Sighting it was given
IsConfirmedView(d) == d.status = "confirmed"
IsVerifiedView(d) ==
  d.status = "verified" \/ d.status = "active" \/ IsConfirmedView(d)

\* useAuth().role of the tab's principal
RoleOf(t) == role[t]
CanConfirm(t) == TabUser[t] # NULL /\ RoleOf(t) \in {"trusted", "admin"}

\* the "Validate Sighting" button is rendered and enabled
ValidateButton(t) ==
  /\ drawer[t] # NoSighting
  /\ ~IsVerifiedView(drawer[t])
  /\ ~(validating[t] \/ validationSuccess[t])

\* the "Confirm sighting (Level 3)" button is rendered and enabled
ConfirmButton(t) ==
  /\ drawer[t] # NoSighting
  /\ IsVerifiedView(drawer[t]) /\ ~IsConfirmedView(drawer[t]) /\ CanConfirm(t)
  /\ ~confirmSuccess[t]

(* ----------------------------------------------------------- home page *)
\* setSelectedSighting(sighting): the drawer mounts with the clicked Sighting
OpenDrawer(t, s) ==
  /\ drawer[t] = NoSighting
  /\ drawer' = [drawer EXCEPT ![t] = [id |-> s, status |-> sightings[s].status]]
  /\ UNCHANGED <<dbVars, pc, txn, uiVars, hist>>
  /\ UNCHANGED sideVars

\* onClose: the drawer unmounts and its component state is dropped
CloseDrawer(t) ==
  /\ drawer[t] # NoSighting
  /\ pc[t] = "idle"
  /\ drawer' = [drawer EXCEPT ![t] = NoSighting]
  /\ validating' = [validating EXCEPT ![t] = FALSE]
  /\ validationError' = [validationError EXCEPT ![t] = NULL]
  /\ validationSuccess' = [validationSuccess EXCEPT ![t] = FALSE]
  /\ confirmSuccess' = [confirmSuccess EXCEPT ![t] = FALSE]
  /\ confirmError' = [confirmError EXCEPT ![t] = NULL]
  /\ hist' = [hist EXCEPT ![t] = NoHist]
  /\ UNCHANGED <<dbVars, pc, txn>>
  /\ UNCHANGED sideVars

(* ------------------------------------------------------- handleValidate *)
\* the handler up to the await of getCurrentPosition
HandleValidate(t) ==
  /\ pc[t] = "idle"
  /\ ValidateButton(t)
  /\ ~(drawer[t] = NoSighting \/ validating[t] \/ validationSuccess[t])
  /\ validating' = [validating EXCEPT ![t] = TRUE]
  /\ validationError' = [validationError EXCEPT ![t] = NULL]
  /\ pc' = [pc EXCEPT ![t] = "locating"]
  /\ hist' = [hist EXCEPT ![t] =
                [NoHist EXCEPT !.retry = (validationError[t] = ErrOutOfRange)]]
  /\ UNCHANGED <<dbVars, drawer, txn, validationSuccess, confirmSuccess, confirmError>>
  /\ UNCHANGED sideVars

\* a rejection that leaves the in-progress flag set
RejectStuck(t, message) ==
  /\ validationError' = [validationError EXCEPT ![t] = message]
  /\ pc' = [pc EXCEPT ![t] = "idle"]
  /\ hist' = [hist EXCEPT ![t].retry = FALSE]
  /\ UNCHANGED <<dbVars, drawer, txn, validating, validationSuccess, confirmSuccess,
                 confirmError>>

\* the handler ends with a message (setValidationError, setValidating(false))
\* and nothing is sent to the store
Reject(t, message) ==
  /\ validationError' = [validationError EXCEPT ![t] = message]
  /\ validating' = [validating EXCEPT ![t] = FALSE]
  /\ pc' = [pc EXCEPT ![t] = "idle"]
  /\ hist' = [hist EXCEPT ![t].retry = FALSE]
  /\ UNCHANGED <<dbVars, drawer, txn, validationSuccess, confirmSuccess,
                 confirmError>>

\* a catch that reports every failure of the position as out of range
GeolocationMessageSame(code) == ErrOutOfRange

\* catch (err): GeolocationPositionError
GeolocationMessage(code) ==
  IF code = "PERMISSION_DENIED" THEN ErrDenied ELSE ErrLocation

\* getCurrentPosition fails (denied, unavailable, or the 10 s timeout)
GeolocationFails(t) ==
  /\ pc[t] = "locating"
  /\ \E code \in {"PERMISSION_DENIED", "POSITION_UNAVAILABLE", "TIMEOUT"} :
       Reject(t, GeolocationMessage(code))
  /\ UNCHANGED sideVars

\* the proximity gate of the handler
PassesGate(userLat, sightingLat) ==
  IsWithinProximity(userLat, sightingLat, ProximityRadius)

\* the other tabs whose insert request for the same sighting is in flight
Peers(t) ==
  {o \in Tabs \ {t} : /\ pc[o] \in {"insert", "trigger", "update"}
                      /\ drawer[o].id = drawer[t].id}

\* the device of tab t has a committed validation of the sighting in its drawer
AlreadyValidated(t) ==
  \E r \in CommittedRows : /\ r.sighting_id = drawer[t].id
                           /\ r.device_fingerprint = visitorId[t]

\* getCurrentPosition resolves; proximity gate; getDeviceFingerprint
GeolocationResolves(t) ==
  /\ pc[t] = "locating"
  /\ \E off \in ObserverOffsets :
       LET sLat == SightingLat[drawer[t].id]
           userLat == sLat + off
       IN IF ~PassesGate(userLat, sLat)
            THEN Reject(t, ErrOutOfRange)
            ELSE /\ pc' = [pc EXCEPT ![t] = "insert"]
                 /\ hist' = [o \in Tabs |->
                      IF o = t
                        THEN [hist[t] EXCEPT
                                !.raced = Peers(t) # {} /\ ~AlreadyValidated(t)]
                      ELSE IF o \in Peers(t) /\ ~AlreadyValidated(o)
                        THEN [hist[o] EXCEPT !.raced = TRUE]
                      ELSE hist[o]]
                 /\ UNCHANGED <<dbVars, drawer, txn, uiVars>>
  /\ UNCHANGED sideVars

\* the row handleValidate sends to supabase.from('validations').insert; the id
\* column default names the row after the request that wrote it
NewValidation(t) ==
  [id |-> <<t, drawer[t].id>>,
   sighting_id |-> drawer[t].id,
   device_fingerprint |-> visitorId[t],
   is_within_range |-> TRUE,
   validator_id |-> TabUser[t],
   xmin |-> t,
   xmax |-> NULL]

\* an insert that no unique index guards
InsertErrorNoIndex(row, table) ==
  IF ~ValidationsInsertPolicy(row) THEN "42501" ELSE NULL

\* SQLSTATE of the insert, NULL when the row is accepted
InsertError(row, table) ==
  IF ~ValidationsInsertPolicy(row) THEN "42501"
  ELSE IF UniqueConflicts(row, table) # {} THEN "23505"
  ELSE NULL

\* a handler that tests for the wrong SQLSTATE (foreign key violation)
InsertMessageWrongCode(code) == IF code = "23503" THEN ErrDuplicate ELSE ErrStore

\* if (error) { if (error.code === '23505') ... else throw error }
InsertMessage(code) == IF code = "23505" THEN ErrDuplicate ELSE ErrStore

\* the insert statement up to the firing of the AFTER INSERT trigger.  An
\* index entry written or deleted by a transaction still in progress makes
\* the insert wait for that transaction to end.
InsertValidation(t) ==
  /\ pc[t] = "insert"
  /\ LET row == NewValidation(t)
         code == InsertError(row, validations)
     IN /\ \A r \in UniqueConflicts(row, validations) :
              r.xmin = COMMITTED /\ r.xmax = NULL
        /\ IF code # NULL
             THEN Reject(t, InsertMessage(code))
             ELSE /\ validations' = validations \cup {row}
                  /\ txn' = [txn EXCEPT ![t] = [NoTxn EXCEPT !.sighting_id = row.sighting_id]]
                  /\ pc' = [pc EXCEPT ![t] = "trigger"]
                  /\ UNCHANGED <<visitorId, sightings, profiles, deletes, drawer,
                                 uiVars, hist>>
  /\ UNCHANGED sideVars

(* ------------------------------------------------- transaction end *)
\* commit of session x: its inserts become visible, its deletes take effect
Commit(x, table) ==
  {IF r.xmin = x THEN [r EXCEPT !.xmin = COMMITTED] ELSE r :
     r \in {q \in table : q.xmax # x}}

\* the response reaches the caller: the tab's handler sets validationSuccess
\* (finally: setValidating(false)); the service session has no UI
Respond(x) ==
  /\ pc' = [pc EXCEPT ![x] = "idle"]
  /\ txn' = [txn EXCEPT ![x] = NoTxn]
  /\ IF x \in Tabs
       THEN /\ validationSuccess' = [validationSuccess EXCEPT ![x] = TRUE]
            /\ validating' = [validating EXCEPT ![x] = FALSE]
            /\ hist' = [hist EXCEPT ![x].retry = FALSE]
       ELSE UNCHANGED <<validationSuccess, validating, hist>>
  /\ UNCHANGED <<validationError, confirmSuccess, confirmError, drawer>>

\* trigger body, lines up to the update: status check, count, media length
TriggerRead(x) ==
  /\ pc[x] = "trigger"
  /\ LET sid == txn[x].sighting_id
         v_current_status == sightings[sid].status
     IN IF SkipsRecompute(v_current_status)
          THEN /\ validations' = Commit(x, validations)
               /\ Respond(x)
               /\ UNCHANGED <<visitorId, sightings, profiles, deletes>>
          ELSE /\ txn' = [txn EXCEPT ![x] =
                            [sighting_id |-> sid,
                             v_count |-> CountValidations(x, sid),
                             v_media_len |-> sightings[sid].media_len]]
               /\ pc' = [pc EXCEPT ![x] = "update"]
               /\ UNCHANGED <<dbVars, drawer, uiVars, hist>>
  /\ UNCHANGED sideVars

\* the trigger's update of the sighting row, then the commit of the statement
TriggerUpdate(x) ==
  /\ pc[x] = "update"
  /\ LET sid == txn[x].sighting_id
     IN sightings' = [sightings EXCEPT ![sid] =
                        UpdateSighting(@, txn[x].v_count, txn[x].v_media_len)]
  /\ validations' = Commit(x, validations)
  /\ Respond(x)
  /\ UNCHANGED <<visitorId, profiles, deletes>>
  /\ UNCHANGED sideVars

(* ------------------------------------------------------ service session *)
\* delete from validations where id = r.id, up to the AFTER DELETE trigger
DeleteValidation(r) ==
  /\ pc[Service] = "idle"
  /\ deletes < MaxDeletes
  /\ r \in validations /\ r.xmin = COMMITTED /\ r.xmax = NULL
  /\ validations' = (validations \ {r}) \cup {[r EXCEPT !.xmax = Service]}
  /\ deletes' = deletes + 1
  /\ txn' = [txn EXCEPT ![Service] = [NoTxn EXCEPT !.sighting_id = r.sighting_id]]
  /\ pc' = [pc EXCEPT ![Service] = "trigger"]
  /\ UNCHANGED <<visitorId, sightings, profiles, drawer, uiVars, hist>>
  /\ UNCHANGED sideVars

(* -------------------------------------------------------- handleConfirm *)
\* policy sightings_update_trusted (using / with check)
SightingsUpdatePolicy(user) ==
  user # NULL /\ profiles[user] \in {"trusted", "admin"}

\* supabase.from('sightings').update({status: 'confirmed'}).eq('id', id):
\* rows the policy hides are not updated and no error is returned
HandleConfirm(t) ==
  /\ pc[t] = "idle"
  /\ ConfirmButton(t)
  /\ ~(drawer[t] = NoSighting \/ confirmSuccess[t])
  /\ LET sid == drawer[t].id
     IN sightings' = [sightings EXCEPT ![sid] =
                        IF SightingsUpdatePolicy(TabUser[t])
                          THEN [@ EXCEPT !.status = "confirmed"]
                          ELSE @]
  /\ confirmError' = [confirmError EXCEPT ![t] = NULL]
  /\ confirmSuccess' = [confirmSuccess EXCEPT ![t] = TRUE]
  /\ UNCHANGED <<visitorId, validations, profiles, deletes, drawer, pc, txn,
                 validating, validationError, validationSuccess, hist>>
  /\ UNCHANGED sideVars

(* --------------------------------------------------------- AuthProvider *)
\* onAuthStateChange (sign-in, token refresh): fetchRole reads the stored role
\* again; the effect of an AdminPage that is mounted runs with the new role
FetchRole(c) ==
  /\ role' = [role EXCEPT ![c] = StoredRole(UserOf(c), profiles)]
  /\ IF c \in Consoles /\ adminProfiles[c].loaded /\ role'[c] # "admin"
       THEN adminError' = [adminError EXCEPT ![c] = ErrAccessDenied]
       ELSE UNCHANGED adminError
  /\ UNCHANGED <<coreVars, besideRoles, profiles, adminProfiles>>

(* ------------------------------------------------------------ AdminPage *)
\* the role selects of the profile table are rendered
RoleSelects(c) ==
  /\ UserOf(c) # NULL /\ role[c] = "admin"
  /\ adminProfiles[c].loaded

\* the page mounts: access denied unless useAuth().role is 'admin', else load()
OpenAdminPage(c) ==
  /\ ~adminProfiles[c].loaded /\ adminError[c] = NULL
  /\ UserOf(c) # NULL
  /\ IF role[c] # "admin"
       THEN /\ adminError' = [adminError EXCEPT ![c] = ErrAccessDenied]
            /\ UNCHANGED adminProfiles
       ELSE /\ adminProfiles' = [adminProfiles EXCEPT ![c] =
                 [loaded |-> TRUE, rows |-> GetProfilesForAdmin(UserOf(c), profiles)]]
            /\ UNCHANGED adminError
  /\ UNCHANGED <<coreVars, besideRoles, profiles, role>>

\* leaving the page drops its state
CloseAdminPage(c) ==
  /\ adminProfiles[c].loaded \/ adminError[c] # NULL
  /\ adminProfiles' = [adminProfiles EXCEPT ![c] = NotLoaded]
  /\ adminError' = [adminError EXCEPT ![c] = NULL]
  /\ UNCHANGED <<coreVars, besideRoles, profiles, role>>

\* supabase.from('profiles').update({role}).eq('id', id): error of the request;
\* a row the policy hides is not updated and no error is returned
UpdateProfileError(user, id, table) == NULL

\* the table after the update
UpdateProfile(user, id, newRole, table) ==
  IF ProfilesUpdatePolicy(user, table) /\ table[id] # NULL
    THEN [table EXCEPT ![id] = newRole]
    ELSE table

\* handleRoleChange(id, newRole), fired by the select of a listed profile
HandleRoleChange(c, id, newRole) ==
  /\ RoleSelects(c)
  /\ adminProfiles[c].rows[id] # NULL /\ adminProfiles[c].rows[id] # newRole
  /\ profiles' = UpdateProfile(UserOf(c), id, newRole, profiles)
  /\ LET updateError == UpdateProfileError(UserOf(c), id, profiles)
     IN /\ adminError' = [adminError EXCEPT ![c] = updateError]
        /\ adminProfiles' =
             IF updateError # NULL THEN adminProfiles
             ELSE [adminProfiles EXCEPT ![c].rows[id] = newRole]
  /\ UNCHANGED <<coreVars, besideRoles, role>>

(* ------------------------------------------------------ pending invites *)
\* where lower(trim(email)) = lower(trim(new.email::text))
InviteMatches(email, newEmail) ==
  ToLowerCase(Trim(email)) = ToLowerCase(Trim(newEmail))

\* handle_new_user: v_invited
Invited(newEmail, invites) ==
  \E r \in invites : InviteMatches(r.email, newEmail)

\* handle_new_user: the role of the profile it leaves behind
HandleNewUserRole(newEmail, invites) ==
  IF Invited(newEmail, invites) THEN "trusted" ELSE "anonymous"

\* handle_new_user: pending_invites as it leaves it
HandleNewUserInvitesKept(newEmail, invites) == invites

HandleNewUserInvites(newEmail, invites) ==
  IF Invited(newEmail, invites)
    THEN {r \in invites : ~InviteMatches(r.email, newEmail)}
    ELSE invites

\* the identity service has an account for the principal (profiles.id
\* references auth.users and handle_new_user adds the profile with the account)
HasAccount(u) == profiles[u] # NULL \/ u \in EarlierUsers

\* insert into auth.users, which fires on_auth_user_created
CreateUser(u) ==
  /\ profiles' = [profiles EXCEPT ![u] = HandleNewUserRole(UserEmail[u], pendingInvites)]
  /\ pendingInvites' = HandleNewUserInvites(UserEmail[u], pendingInvites)
  /\ consumed' = IF Invited(UserEmail[u], pendingInvites)
                   THEN consumed \cup {u} ELSE consumed

\* the principal completes sign-in at the login page (signInWithOtp /
\* signInWithPassword); the identity service creates the account of an email
\* it does not know, and only then on_auth_user_created fires
SignIn(u) ==
  /\ IF HasAccount(u)
       THEN UNCHANGED <<profiles, pendingInvites, consumed>>
       ELSE CreateUser(u)
  /\ signIn' = {r \in signIn : r.user # u} \cup
        {[user |-> u,
          kind |-> IF HasAccount(u) THEN "returning" ELSE "created",
          before |-> StoredRole(u, profiles),
          after |-> StoredRole(u, profiles')]}
  /\ UNCHANGED <<coreVars, roleVars, besideInvites, inviteMessage>>

\* pending_invites after upsert({email, invited_by}, {onConflict: 'email'})
Upsert(row, invites) ==
  {r \in invites : r.email # row.email} \cup {row}

\* principals without account that auth.admin.inviteUserByEmail(email) would
\* create
Invitees(email) ==
  {u \in Users : ~HasAccount(u) /\ ToLowerCase(UserEmail[u]) = ToLowerCase(email)}

\* handleInvite of the admin page and POST /api/invite-validator behind it.
\* inviteUserByEmail fails for an email that has an account; for an unknown
\* email the identity service adds the account with the invite or with the
\* first sign-in (atOnce)
HandleInvite(c, input, atOnce) ==
  /\ UserOf(c) # NULL /\ role[c] = "admin"
  /\ adminProfiles[c].loaded
  /\ Trim(input) # <<>>
  /\ LET trimmed == Trim(input)
         row == [email |-> ToLowerCase(trimmed), invited_by |-> UserOf(c)]
     IN IF ~Includes(trimmed, "@")
          THEN /\ inviteMessage' = [inviteMessage EXCEPT ![c] = ErrValidEmail]
               /\ UNCHANGED <<profiles, pendingInvites, consumed>>
        ELSE IF profiles[UserOf(c)] # "admin"
          THEN /\ inviteMessage' = [inviteMessage EXCEPT ![c] = ErrAdminOnly]
               /\ UNCHANGED <<profiles, pendingInvites, consumed>>
        ELSE IF \E u \in Users : HasAccount(u) /\ ToLowerCase(UserEmail[u]) = ToLowerCase(trimmed)
          THEN /\ pendingInvites' = Upsert(row, pendingInvites)
               /\ inviteMessage' = [inviteMessage EXCEPT ![c] = ErrInviteUser]
               /\ UNCHANGED <<profiles, consumed>>
        ELSE IF atOnce /\ Invitees(trimmed) # {}
          THEN /\ \E u \in Invitees(trimmed) :
                    /\ profiles' = [profiles EXCEPT ![u] =
                         HandleNewUserRole(UserEmail[u], Upsert(row, pendingInvites))]
                    /\ pendingInvites' =
                         HandleNewUserInvites(UserEmail[u], Upsert(row, pendingInvites))
                    /\ consumed' = consumed \cup {u}
               /\ inviteMessage' = [inviteMessage EXCEPT ![c] = MsgInviteSent]
        ELSE /\ pendingInvites' = Upsert(row, pendingInvites)
             /\ inviteMessage' = [inviteMessage EXCEPT ![c] = MsgInviteSent]
             /\ UNCHANGED <<profiles, consumed>>
  /\ UNCHANGED <<coreVars, roleVars, besideInvites, signIn>>

(* ------------------------------------------------- AuthProvider, by step *)
\* fetchRole(userId) up to its await: one more request on its way
StartFetchRole(a) == [a EXCEPT !.fetches = a.fetches + 1]

\* setSession(s); setUser(s?.user ?? null); then fetchRole or setRole(null)
ApplySession(a, s) ==
  IF s # NULL
    THEN StartFetchRole([a EXCEPT !.user = s])
    ELSE [a EXCEPT !.user = NULL, !.role = NULL]

AuthStep == UNCHANGED <<coreVars, profiles, roleVars, inviteVars, reportVars,
                        identVars, response, liveMap>>

\* init(): getSession answers with the session the library holds
InitResolves ==
  /\ auth.init = "pending"
  /\ auth.session # NULL => auth.fetches < MaxFetches
  /\ auth' = ApplySession([auth EXCEPT !.init = "done"], auth.session)
  /\ AuthStep

\* the principal signs in; the library stores the session and calls the
\* onAuthStateChange callback with SIGNED_IN
SignedIn ==
  /\ auth.session = NULL /\ auth.signOut # "awaiting"
  /\ auth.fetches < MaxFetches
  /\ auth' = [ApplySession(auth, AuthUser) EXCEPT !.session = AuthUser]
  /\ AuthStep

\* the library renews the token and calls the callback with TOKEN_REFRESHED
TokenRefreshed ==
  /\ auth.session # NULL
  /\ auth.fetches < MaxFetches
  /\ auth' = ApplySession(auth, auth.session)
  /\ AuthStep

\* what a fetchRole request leaves in role: the stored role, or 'anonymous'
\* when the request comes back without a row
FetchedRoles(userId) == {StoredRole(userId, profiles), "anonymous"}

\* a fetchRole request resolves: setRole(data?.role ?? 'anonymous')
FetchRoleResolves(fetched) ==
  /\ auth.fetches > 0
  /\ auth' = [auth EXCEPT !.fetches = auth.fetches - 1, !.role = fetched]
  /\ AuthStep

\* signOut up to its await: supabase.auth.signOut() drops the session and
\* the callback runs with SIGNED_OUT
SignOutCalled ==
  /\ auth.user # NULL /\ auth.signOut # "awaiting"
  /\ auth' = [ApplySession(auth, NULL) EXCEPT !.session = NULL, !.signOut = "awaiting"]
  /\ AuthStep

\* signOut after its await: setUser(null); setSession(null); setRole(null)
SignOutCompletes ==
  /\ auth.signOut = "awaiting"
  /\ auth' = [auth EXCEPT !.user = NULL, !.role = NULL, !.signOut = "done"]
  /\ AuthStep

(* ----------------------------------------------------------------- LiveMap *)
\* the values sightings_status_chk admits
Statuses == {"unverified", "verified", "active", "confirmed"}

\* event_time of the sighting is more than 24 hours ago
IsHistorical == [s1 |-> FALSE, s2 |-> TRUE]

\* .order('event_time', { ascending: false }): s1 is the later one
OrderByEventTime(rows) ==
  LET pick(id) == IF \E r \in rows : r.id = id
                    THEN <<CHOOSE r \in rows : r.id = id>> ELSE <<>>
  IN pick("s1") \o pick("s2")

MapStep == UNCHANGED <<coreVars, profiles, roleVars, inviteVars, reportVars,
                       identVars, response, auth>>

\* a row of public.sightings is inserted; the realtime service sends INSERT
RowInserted(id) ==
  /\ \A r \in liveMap.table : r.id # id
  /\ Len(liveMap.events) < MaxEvents
  /\ LET new == [id |-> id, status |-> "unverified"]
     IN liveMap' = [liveMap EXCEPT
                      !.table = @ \cup {new},
                      !.events = Append(@, [eventType |-> "INSERT", new |-> new])]
  /\ MapStep

\* the status of a row changes; the realtime service sends UPDATE
RowUpdated(id, status) ==
  /\ \E r \in liveMap.table : r.id = id /\ r.status # status
  /\ Len(liveMap.events) < MaxEvents
  /\ LET new == [id |-> id, status |-> status]
     IN liveMap' = [liveMap EXCEPT
                      !.table = {r \in @ : r.id # id} \cup {new},
                      !.events = Append(@, [eventType |-> "UPDATE", new |-> new])]
  /\ MapStep

\* a row is deleted; the realtime service sends DELETE with the old id
RowDeleted(id) ==
  /\ \E r \in liveMap.table : r.id = id
  /\ Len(liveMap.events) < MaxEvents
  /\ liveMap' = [liveMap EXCEPT
                   !.table = {r \in @ : r.id # id},
                   !.events = Append(@, [eventType |-> "DELETE",
                                         old |-> [id |-> id]])]
  /\ MapStep

\* the store runs the select of loadSightings
SelectSightings ==
  /\ liveMap.load = "sent"
  /\ liveMap' = [liveMap EXCEPT !.load = "answered",
                                !.data = OrderByEventTime(liveMap.table)]
  /\ MapStep

\* loadSightings after its await: setSightings(data || []); setLoading(false)
LoadSightingsResolves ==
  /\ liveMap.load = "answered"
  /\ liveMap' = [liveMap EXCEPT !.load = "done", !.sightings = liveMap.data,
                                !.data = <<>>, !.loading = FALSE]
  /\ MapStep

\* a list with the entries of id replaced by new
MapEntries(prev, new) ==
  [k \in DOMAIN prev |-> IF prev[k].id = new.id THEN new ELSE prev[k]]

\* a list without the entries of id
FilterEntries(prev, id) == SelectSeq(prev, LAMBDA e : e.id # id)

\* the state updater of the postgres_changes callback
OnChange(payload, prev) ==
  IF payload.eventType = "INSERT" THEN <<payload.new>> \o prev
  ELSE IF payload.eventType = "UPDATE" THEN MapEntries(prev, payload.new)
  ELSE FilterEntries(prev, payload.old.id)

\* the channel delivers its oldest event and the callback runs
EventDelivered ==
  /\ liveMap.events # <<>>
  /\ Len(OnChange(Head(liveMap.events), liveMap.sightings)) <= MaxEntries
  /\ liveMap' = [liveMap EXCEPT
                   !.events = Tail(@),
                   !.sightings = OnChange(Head(liveMap.events), @)]
  /\ MapStep

(* ------------------------------------------------------ display surfaces *)
\* LiveMap: the icon of the marker
MarkerIcon(status, isHistorical) ==
  IF status = "verified" THEN "verified-marker"
  ELSE IF isHistorical THEN "historical-marker"
  ELSE "unverified-marker"

\* SightingDrawer: text and colour of the status panel
DrawerStatus(status) ==
  LET d == [id |-> NULL, status |-> status]
  IN IF IsConfirmedView(d) THEN <<"Confirmed", "#ff3b30">>
     ELSE IF IsVerifiedView(d) THEN <<"Verified", "#ff3b30">>
     ELSE <<"Unverified", "#ffd700">>

\* Home, sightings table: statusText and statusColor
TableStatus(status, isHistorical) ==
  IF isHistorical THEN <<"Historic", "#4a4a4a">>
  ELSE IF status = "confirmed" THEN <<"Confirmed", "#ff3b30">>
  ELSE IF status \in {"verified", "active"} THEN <<"Verified", "#ff3b30">>
  ELSE <<"Unverified", "#ffd700">>

\* Home, recent reports: colour of the time
RecentColor(status) ==
  IF status \in {"confirmed", "verified", "active"} THEN "#ff3b30" ELSE "#ffd700"

(* ------------------------------------------- requests to public.profiles *)
\* policy profiles_insert_authenticated (with check)
ProfilesInsertPolicy(user, row) == user # NULL /\ user = row.id

\* SQLSTATE of an insert into profiles sent with the session of user, NULL
\* when the row is accepted
InsertProfileError(user, row, table) ==
  IF ~ProfilesInsertPolicy(user, row) THEN "42501"
  ELSE IF table[row.id] # NULL THEN "23505"
  ELSE NULL

\* supabase.from('profiles').insert({id, role}) sent by a signed-in principal
InsertProfile(user, id, newRole) ==
  /\ HasAccount(user) /\ HasAccount(id)
  /\ LET row == [id |-> id, role |-> newRole]
     IN profiles' = IF InsertProfileError(user, row, profiles) = NULL
                      THEN [profiles EXCEPT ![id] = newRole]
                      ELSE profiles
  /\ UNCHANGED <<coreVars, roleVars, inviteVars, besideInvites>>

\* supabase.from('profiles').update({role}).eq('id', id) sent by a signed-in
\* principal, from the admin page or not
SendUpdateProfile(user, id, newRole) ==
  /\ HasAccount(user)
  /\ profiles' = UpdateProfile(user, id, newRole, profiles)
  /\ UNCHANGED <<coreVars, roleVars, inviteVars, besideInvites>>

(* ------------------------------------------- POST /api/invite-validator *)
\* who calls the endpoint: a request without tokens, one whose tokens no
\* session answers to, or one with the session of a principal
Callers == {"none", "invalid"} \cup Users

\* the request has passed every check before the service client is made
Passed == [status |-> 200, error |-> NULL, mail |-> "none"]

Refused(status, error) == [status |-> status, error |-> error, mail |-> "none"]

\* checks that let every session through, whatever its role
PostChecksAnyRole(caller, trimmed, table) ==
  IF trimmed = <<>> \/ ~Includes(trimmed, "@") THEN Refused(400, ErrValidEmail)
  ELSE IF caller = "none" THEN Refused(401, ErrSessionRequired)
  ELSE IF caller = "invalid" THEN Refused(401, ErrInvalidSession)
  ELSE Passed

\* the checks of POST in their order: email, tokens, session, stored role
PostChecks(caller, trimmed, table) ==
  IF trimmed = <<>> \/ ~Includes(trimmed, "@") THEN Refused(400, ErrValidEmail)
  ELSE IF caller = "none" THEN Refused(401, ErrSessionRequired)
  ELSE IF caller = "invalid" THEN Refused(401, ErrInvalidSession)
  ELSE IF table[caller] # "admin" THEN Refused(403, ErrAdminOnly)
  ELSE Passed

\* the email belongs to an account: inviteUserByEmail answers with an error
Registered(email) ==
  \E u \in Users : HasAccount(u) /\ ToLowerCase(UserEmail[u]) = ToLowerCase(email)

\* one request to the endpoint, from the checks to the response.  The mail
\* may fail to go out (mailFails); the identity service then keeps no account
Post(caller, input, atOnce, mailFails) ==
  /\ caller \in Users => HasAccount(caller)
  /\ LET trimmed == Trim(input)
         checks == PostChecks(caller, trimmed, profiles)
         row == [email |-> ToLowerCase(trimmed), invited_by |-> caller]
         upserted == Upsert(row, pendingInvites)
     IN IF checks # Passed
          THEN /\ response' = checks
               /\ UNCHANGED <<profiles, pendingInvites, consumed>>
        ELSE IF Registered(trimmed) \/ mailFails
          THEN /\ pendingInvites' = upserted
               /\ response' = [status |-> 400, error |-> ErrInviteUser, mail |-> "failed"]
               /\ UNCHANGED <<profiles, consumed>>
        ELSE IF atOnce /\ Invitees(trimmed) # {}
          THEN /\ \E u \in Invitees(trimmed) :
                    /\ profiles' = [profiles EXCEPT ![u] =
                         HandleNewUserRole(UserEmail[u], upserted)]
                    /\ pendingInvites' = HandleNewUserInvites(UserEmail[u], upserted)
                    /\ consumed' = consumed \cup {u}
               /\ response' = [status |-> 200, error |-> NULL, mail |-> "sent"]
        ELSE /\ pendingInvites' = upserted
             /\ response' = [status |-> 200, error |-> NULL, mail |-> "sent"]
             /\ UNCHANGED <<profiles, consumed>>
  /\ UNCHANGED <<coreVars, roleVars, reportVars, identVars, inviteMessage, signIn,
                 auth, liveMap>>

(* ------------------------------------------------------ numbers and text *)
\* a JavaScript number | null; coordinates are whole degrees
Num(v) == [kind |-> "number", val |-> v]
NaN == [kind |-> "NaN", val |-> 0]
Null == [kind |-> "null", val |-> 0]

\* !x
Not(x) == x.kind # "number" \/ x.val = 0

IsNaN(x) == x.kind = "NaN"

Digits == {"0", "1", "2", "3", "4", "5", "6", "7", "8", "9"}

DigitValue(ch) ==
  CASE ch = "0" -> 0 [] ch = "1" -> 1 [] ch = "2" -> 2 [] ch = "3" -> 3
    [] ch = "4" -> 4 [] ch = "5" -> 5 [] ch = "6" -> 6 [] ch = "7" -> 7
    [] ch = "8" -> 8 [] ch = "9" -> 9

\* the longest prefix of digits
RECURSIVE DigitPrefix(_)
DigitPrefix(str) ==
  IF str # <<>> /\ Head(str) \in Digits
    THEN <<Head(str)>> \o DigitPrefix(Tail(str))
    ELSE <<>>

RECURSIVE DecimalValue(_)
DecimalValue(ds) ==
  IF ds = <<>> THEN 0
  ELSE 10 * DecimalValue(SubSeq(ds, 1, Len(ds) - 1)) + DigitValue(ds[Len(ds)])

\* parseFloat for whole numbers: an optional sign, then digits, then anything;
\* NaN without a digit in front
ParseFloat(str) ==
  LET negative == str # <<>> /\ Head(str) = "-"
      ds == DigitPrefix(IF negative THEN Tail(str) ELSE str)
  IN IF ds = <<>> THEN NaN
     ELSE Num(IF negative THEN 0 - DecimalValue(ds) ELSE DecimalValue(ds))

\* a text value by its shape: leading white space, the part between the
\* first and the last other character, trailing white space
Text(lead, core, trail) == [lead |-> lead, core |-> core, trail |-> trail]
Undefined == [lead |-> 0, core |-> 0, trail |-> 0, undefined |-> TRUE]

\* str.length / char_length(str)
Length(str) == str.lead + str.core + str.trail

\* str.trim() (csv-parse trim: true)
TrimText(str) ==
  IF str.core = 0 THEN Text(0, 0, 0) ELSE Text(0, str.core, 0)

\* !str
Empty(str) == Length(str) = 0

(* ----------------------------------------------------------- large numbers *)
\* a natural number as limbs to the base 65536, most significant first;
\* Date.now() at the milliseconds the model visits
Times == <<<<411, 64530, 3264>>, <<411, 64530, 3265>>, <<411, 64531, 27728>>>>

DateNow == Times[clock]

IsZero(n) == \A k \in 1..Len(n) : n[k] = 0

\* n divided by the small number d: quotient q and remainder r
RECURSIVE LongDiv(_, _, _)
LongDiv(n, d, carry) ==
  IF n = <<>> THEN [q |-> <<>>, r |-> carry]
  ELSE LET cur == carry * Base + Head(n)
           rest == LongDiv(Tail(n), d, cur % d)
       IN [q |-> <<cur \div d>> \o rest.q, r |-> rest.r]

DigitChars == <<"0", "1", "2", "3", "4", "5", "6", "7", "8", "9",
                "a", "b", "c", "d", "e", "f", "g", "h", "i", "j", "k", "l", "m",
                "n", "o", "p", "q", "r", "s", "t", "u", "v", "w", "x", "y", "z">>

RECURSIVE ToDigits(_, _)
ToDigits(n, radix) ==
  IF IsZero(n) THEN <<>>
  ELSE LET dm == LongDiv(n, radix, 0)
       IN ToDigits(dm.q, radix) \o <<DigitChars[dm.r + 1]>>

\* Number.prototype.toString(radix) and the string conversion of a number
NumberToString(n, radix) == IF IsZero(n) THEN <<"0">> ELSE ToDigits(n, radix)

\* String.prototype.charCodeAt for the characters the model uses
CharCode(ch) ==
  IF ch = "-" THEN 45
  ELSE IF ch = ":" THEN 58
  ELSE LET k == CHOOSE j \in 1..Len(DigitChars) : DigitChars[j] = ch
       IN IF k <= 10 THEN 47 + k ELSE 86 + k

\* hash = (hash << 5) - hash + char; hash = hash & hash, on the 32 bits of
\* hash as <<high half, low half>>
HashStep(hash, char) ==
  LET lo == 31 * hash[2] + char
      hi == 31 * hash[1] + (lo \div Base)
  IN <<hi % Base, lo % Base>>

RECURSIVE HashOf(_, _)
HashOf(hash, str) ==
  IF str = <<>> THEN hash ELSE HashOf(HashStep(hash, CharCode(Head(str))), Tail(str))

\* Math.abs of the 32 bits read as a signed integer
MathAbs(hash) ==
  IF hash[1] < Base \div 2 THEN hash
  ELSE <<(Base - 1 - hash[1] + (IF hash[2] = 0 THEN 1 ELSE 0)) % Base,
         (Base - hash[2]) % Base>>

(* ----------------------------------------------------- generateValidatorHash *)
\* crypto.randomUUID()
UUIDs == {<<"a", "3", "f", "1">>, <<"0", "b", "e", "4">>}

\* sighting.id as a string
IdString == [s1 |-> <<"s", "1">>, s2 |-> <<"s", "2">>]

\* the device token after the call: the stored one, or a new one
DeviceToken(stored, uuid) ==
  IF stored # NoToken THEN stored
  ELSE uuid \o <<"-">> \o NumberToString(DateNow, 10)

\* the return value for a device token
GenerateValidatorHash(token, sightingId) ==
  NumberToString(MathAbs(HashOf(<<0, 0>>, token \o <<":">> \o sightingId)), 36)
    \o NumberToString(DateNow, 36)

\* localStorage.getItem(STORAGE_KEY) on device d
GetItem(d) ==
  IF \E r \in storage : r.device = d
    THEN (CHOOSE r \in storage : r.device = d).token
    ELSE NoToken

\* localStorage after setItem(STORAGE_KEY, token) on device d
SetItem(d, token) ==
  {r \in storage : r.device # d} \cup {[device |-> d, token |-> token]}

\* the millisecond passes
Tick ==
  /\ clock < Len(Times)
  /\ clock' = clock + 1
  /\ UNCHANGED <<coreVars, profiles, besideLegacy, storage, issued>>

\* the visitor clears the site data of the browser on device d
ClearStorage(d) ==
  /\ GetItem(d) # NoToken
  /\ storage' = {r \in storage : r.device # d}
  /\ issued' = {r \in issued : r.device # d}
  /\ UNCHANGED <<coreVars, profiles, besideLegacy, clock>>

(* -------------------------------------------- handleValidate (legacy drawer) *)
\* Math.round(userLat * 100) / 100, on positions in metres
RoundPosition(userLat) ==
  ((2 * userLat + RoundingGrid) \div (2 * RoundingGrid)) * RoundingGrid

\* the row the legacy handler sends; columns it does not name take their
\* defaults
LegacyValidation(t, validatorHash, userLat) ==
  [id |-> <<t, drawer[t].id, validatorHash>>,
   sighting_id |-> drawer[t].id,
   device_fingerprint |-> NULL,
   is_within_range |-> TRUE,
   validator_id |-> NULL,
   validator_hash |-> validatorHash,
   validator_lat |-> Num(RoundPosition(userLat)),
   validator_lng |-> Num(0),
   xmin |-> COMMITTED,
   xmax |-> NULL]

\* constraint validations_validator_hash_len_chk
ValidatorHashConstraint(row) ==
  Len(row.validator_hash) >= HashMinLen /\ Len(row.validator_hash) <= HashMaxLen

\* unique index validations_unique_validator_per_sighting
HashConflicts(row, table) ==
  {r \in table : /\ "validator_hash" \in DOMAIN r
                 /\ r.sighting_id = row.sighting_id
                 /\ r.validator_hash = row.validator_hash}

\* a store that takes every row
LegacyInsertErrorNone(row, table) == NULL

\* SQLSTATE of the legacy insert, NULL when the row is accepted
LegacyInsertError(row, table) ==
  IF ~ValidationsInsertPolicy(row) THEN "42501"
  ELSE IF ~ValidatorHashConstraint(row) THEN "23514"
  ELSE IF HashConflicts(row, table) # {} THEN "23505"
  ELSE NULL

\* the legacy handler from the click to its last state update, for the
\* position the browser reports and the uuid the browser would draw (drawn
\* only while no token is stored); an accepted insert runs the trigger before
\* the handler goes on
LegacyHandleValidate(t, off, uuid) ==
  /\ pc[t] = "idle"
  /\ GetItem(visitorId[t]) # NoToken => uuid = CHOOSE u \in UUIDs : TRUE
  /\ ~(drawer[t] = NoSighting \/ validating[t] \/ validationSuccess[t])
  /\ LET sid == drawer[t].id
         sLat == SightingLat[sid]
         userLat == sLat + off
         d == visitorId[t]
         token == DeviceToken(GetItem(d), uuid)
         validatorHash == GenerateValidatorHash(token, IdString[sid])
         row == LegacyValidation(t, validatorHash, userLat)
         code == LegacyInsertError(row, validations)
     IN IF ~IsWithinProximity(userLat, sLat, ProximityRadius)
          THEN /\ validationError' = [validationError EXCEPT ![t] = ErrOutOfRange]
               /\ UNCHANGED <<validations, sightings, validationSuccess, storage, issued>>
          ELSE /\ storage' = SetItem(d, token)
               /\ issued' = {r \in issued : r.device # d \/ r.sighting # sid} \cup
                    {[device |-> d, sighting |-> sid, id |-> validatorHash]}
               /\ IF code # NULL
                    THEN /\ validationError' = [validationError EXCEPT ![t] = InsertMessage(code)]
                         /\ UNCHANGED <<validations, sightings, validationSuccess>>
                    ELSE /\ validations' = validations \cup {row}
                         /\ sightings' = [sightings EXCEPT ![sid] =
                              RecomputeSighting(@, Cardinality(RowsOf(CommittedRows, sid)) + 1)]
                         /\ validationError' = [validationError EXCEPT ![t] = NULL]
                         /\ validationSuccess' = [validationSuccess EXCEPT ![t] = TRUE]
  /\ UNCHANGED <<visitorId, profiles, deletes, drawer, pc, txn, validating,
                 confirmSuccess, confirmError, hist, besideLegacy, clock>>

(* ------------------------------------------------------- public.sightings *)
\* the table constraints sightings_lat_chk, sightings_lng_chk,
\* sightings_activity_type_len_chk, sightings_notes_len_chk (and not null)
SightingsConstraints(row) ==
  /\ row.lat.kind = "number" /\ row.lat.val >= 0 - LatLimit /\ row.lat.val <= LatLimit
  /\ row.lng.kind = "number" /\ row.lng.val >= 0 - LngLimit /\ row.lng.val <= LngLimit
  /\ Length(row.activity_type) >= 1 /\ Length(row.activity_type) <= ActivityTypeMaxLen
  /\ row.notes = Undefined \/ Length(row.notes) <= NotesMaxLen

\* policy sightings_insert_anon (with check)
SightingsInsertPolicy(row) ==
  /\ row.lat.kind = "number" /\ row.lat.val >= 0 - LatLimit /\ row.lat.val <= LatLimit
  /\ row.lng.kind = "number" /\ row.lng.val >= 0 - LngLimit /\ row.lng.val <= LngLimit
  /\ Length(row.activity_type) >= 1 /\ Length(row.activity_type) <= ActivityTypeMaxLen
  /\ row.notes = Undefined \/ Length(row.notes) <= NotesMaxLen

\* the row an insert stores: the columns of the payload, the column defaults
\* for status and validations_count when the payload has none; via stands for
\* the id column: the program that sent the row and its number there (for the
\* import, the line of the file)
NewSighting(payload, via) ==
  [lat |-> payload.lat,
   lng |-> payload.lng,
   activity_type |-> payload.activity_type,
   notes |-> payload.notes,
   status |-> IF "status" \in DOMAIN payload THEN payload.status ELSE "unverified",
   validations_count |->
     IF "validations_count" \in DOMAIN payload THEN payload.validations_count ELSE 0,
   via |-> via]

ViaForm(n) == [by |-> "form", row |-> n]
ViaImport(rowNum) == [by |-> "import", row |-> rowNum]

\* notes null in the store is the absent text
OrNull(str) == IF Empty(str) THEN Undefined ELSE str

(* ------------------------------------------------------------ ReportPage *)
\* handleSubmit: the message of the form checks, NULL when they pass
FormError(lat, lng, activityType) ==
  IF Not(lat) \/ Not(lng) THEN ErrSelectLocation
  ELSE IF Empty(TrimText(activityType)) THEN ErrActivityType
  ELSE NULL

\* handleSubmit: the payload of the insert
ReportPayload(lat, lng, activityType, notes) ==
  [lat |-> lat,
   lng |-> lng,
   activity_type |-> TrimText(activityType),
   notes |-> OrNull(TrimText(notes))]

\* the live submission stores the values
LiveAccepts(lat, lng, activityType, notes) ==
  /\ FormError(lat, lng, activityType) = NULL
  /\ SightingsInsertPolicy(ReportPayload(lat, lng, activityType, notes))
  /\ SightingsConstraints(ReportPayload(lat, lng, activityType, notes))

\* the rows the report page has added
FormRows == {r \in created : r.via.by = "form"}

\* handleSubmit with the form state (lat, lng, activityType, notes)
SubmitReport(lat, lng, activityType, notes) ==
  /\ Cardinality(FormRows) < MaxReports
  /\ IF FormError(lat, lng, activityType) # NULL
       THEN /\ reportForm' = [reportForm EXCEPT !.error = FormError(lat, lng, activityType)]
            /\ UNCHANGED created
       ELSE IF LiveAccepts(lat, lng, activityType, notes)
         THEN /\ created' = created \cup
                    {NewSighting(ReportPayload(lat, lng, activityType, notes),
                                 ViaForm(Cardinality(FormRows) + 1))}
              /\ reportForm' = [error |-> NULL, success |-> TRUE]
         ELSE /\ reportForm' = [reportForm EXCEPT !.error = ErrStore]
              /\ UNCHANGED created
  /\ UNCHANGED <<besideReports, importRun>>

\* the page is opened again
OpenReportPage ==
  /\ reportForm # [error |-> NULL, success |-> FALSE]
  /\ reportForm' = [error |-> NULL, success |-> FALSE]
  /\ UNCHANGED <<besideReports, created, importRun>>

(* -------------------------------------------------------- importSightings *)
\* the message of the row validation, NULL when the row passes; row holds the
\* fields as csv-parse returns them
RowError(row) ==
  LET lat == ParseFloat(row.lat)
      lng == ParseFloat(row.lng)
  IN IF IsNaN(lat) \/ lat.val < 0 - LatLimit \/ lat.val > LatLimit
       THEN ErrInvalidLatitude
     ELSE IF IsNaN(lng) \/ lng.val < 0 - LngLimit \/ lng.val > LngLimit
       THEN ErrInvalidLongitude
     ELSE IF Empty(row.activity_type) \/ Length(row.activity_type) > ActivityTypeMaxLen
       THEN ErrInvalidActivityType
     ELSE IF ~Empty(row.notes) /\ Length(row.notes) > NotesMaxLen
       THEN ErrNotesTooLong
     ELSE NULL

\* the payload of the insert
ImportPayloadCounted(row) ==
  [lat |-> ParseFloat(row.lat),
   lng |-> ParseFloat(row.lng),
   activity_type |-> TrimText(row.activity_type),
   notes |-> OrNull(TrimText(row.notes)),
   validations_count |-> 1]

ImportPayload(row) ==
  [lat |-> ParseFloat(row.lat),
   lng |-> ParseFloat(row.lng),
   activity_type |-> TrimText(row.activity_type),
   notes |-> OrNull(TrimText(row.notes))]

\* the row validation of the import lets the fields through
ImportAccepts(row) == RowError(row) = NULL

\* csv-parse with trim: true, one record
ParseRecord(line) ==
  [lat |-> Trim(line.lat),
   lng |-> Trim(line.lng),
   activity_type |-> TrimText(line.activity_type),
   notes |-> TrimText(line.notes)]

\* the script starts and parses a file of n records
StartImport(n) ==
  /\ importRun.pc = "idle"
  /\ importRun' = [pc |-> "loop", records |-> n, i |-> 0, successCount |-> 0,
                    errors |-> <<>>]
  /\ UNCHANGED <<besideReports, created, reportForm>>

\* the error of the request: the service role passes the policies, the table
\* constraints hold for it too, and the request itself may fail
InsertSightingError(payload, fails) ==
  IF fails THEN ErrFetchFailed
  ELSE IF ~SightingsConstraints(payload) THEN ErrCheckViolation
  ELSE NULL

\* successCount after the try block of a record
SuccessCountEager(successCount, rowError, error) ==
  IF rowError = NULL THEN successCount + 1 ELSE successCount

SuccessCount(successCount, rowError, error) ==
  IF rowError = NULL /\ error = NULL THEN successCount + 1 ELSE successCount

\* one turn of the loop, for the record line read from the file; fails: the
\* insert request, if one is sent, does not get through
ImportRow(line, fails) ==
  /\ importRun.pc = "loop"
  /\ importRun.i < importRun.records
  /\ fails => ImportAccepts(ParseRecord(line))
  /\ LET row == ParseRecord(line)
         rowNum == importRun.i + HeaderLines
         rowError == RowError(row)
         error == IF rowError # NULL THEN NULL
                  ELSE InsertSightingError(ImportPayload(row), fails)
         thrown == IF rowError # NULL THEN rowError ELSE error
     IN /\ created' = IF rowError = NULL /\ error = NULL
                         THEN created \cup {NewSighting(ImportPayload(row), ViaImport(rowNum))}
                         ELSE created
        /\ importRun' = [importRun EXCEPT
               !.i = @ + 1,
               !.successCount = SuccessCount(@, rowError, error),
               !.errors = IF thrown # NULL
                            THEN Append(@, [row |-> rowNum, error |-> thrown])
                            ELSE @]
  /\ UNCHANGED <<besideReports, reportForm>>

\* the loop ends and the script returns {successCount, errorCount}
FinishImport ==
  /\ importRun.pc = "loop"
  /\ importRun.i = importRun.records
  /\ importRun' = [importRun EXCEPT !.pc = "done"]
  /\ UNCHANGED <<besideReports, created, reportForm>>

\* what the script returns
ImportResult ==
  [successCount |-> importRun.successCount, errorCount |-> Len(importRun.errors)]

(* ------------------------------------------------------------ test values *)
FormLats == {Null, Num(0), Num(45), Num(91)}
FormLngs == {Num(0), Num(45)}
FormActivityTypes == {Text(1, 0, 0), Text(1, 64, 0), Text(0, 65, 0)}
FormNotes == {Text(0, 2000, 1), Text(0, 2001, 0)}

FileLats == {<<"0">>, <<" ", "4", "5">>, <<"-", "9", "1">>, <<"a", "b", "c">>}
FileLngs == {<<"-", "1", "8", "0">>, <<"1", "8", "1">>}
FileActivityTypes == {Text(1, 0, 0), Text(1, 64, 0), Text(0, 65, 0)}
FileNotes == {Text(0, 0, 0), Text(0, 2000, 1), Text(0, 2001, 0)}
FileLines == [lat : FileLats, lng : FileLngs,
              activity_type : FileActivityTypes, notes : FileNotes]

(* ------------------------------------------------------- specifications *)
\* every request may overlap every other
Next ==
  \/ \E t \in Tabs, s \in Sightings : OpenDrawer(t, s)
  \/ \E t \in Tabs : CloseDrawer(t)
  \/ \E t \in Tabs : HandleValidate(t)
  \/ \E t \in Tabs : GeolocationFails(t)
  \/ \E t \in Tabs : GeolocationResolves(t)
  \/ \E t \in Tabs : InsertValidation(t)
  \/ \E x \in Sessions : TriggerRead(x)
  \/ \E x \in Sessions : TriggerUpdate(x)
  \/ \E r \in validations : DeleteValidation(r)
  \/ \E t \in Tabs : HandleConfirm(t)

Spec == Init /\ [][Next]_vars

\* no other session is inside a request
Alone(x) == \A y \in Sessions \ {x} : pc[y] = "idle"

\* the same operations, one request at a time
NextSeq ==
  \/ \E t \in Tabs, s \in Sightings : OpenDrawer(t, s)
  \/ \E t \in Tabs : CloseDrawer(t)
  \/ \E t \in Tabs : Alone(t) /\ HandleValidate(t)
  \/ \E t \in Tabs : GeolocationFails(t)
  \/ \E t \in Tabs : GeolocationResolves(t)
  \/ \E t \in Tabs : InsertValidation(t)
  \/ \E x \in Sessions : TriggerRead(x)
  \/ \E x \in Sessions : TriggerUpdate(x)
  \/ \E r \in validations : Alone(Service) /\ DeleteValidation(r)
  \/ \E t \in Tabs : Alone(t) /\ HandleConfirm(t)

SpecSeq == Init /\ [][NextSeq]_vars

\* overlapping requests of the tabs, with no row ever deleted
NextSubmit ==
  \/ \E t \in Tabs, s \in Sightings : OpenDrawer(t, s)
  \/ \E t \in Tabs : CloseDrawer(t)
  \/ \E t \in Tabs : HandleValidate(t)
  \/ \E t \in Tabs : GeolocationFails(t)
  \/ \E t \in Tabs : GeolocationResolves(t)
  \/ \E t \in Tabs : InsertValidation(t)
  \/ \E t \in Tabs : TriggerRead(t)
  \/ \E t \in Tabs : TriggerUpdate(t)
  \/ \E t \in Tabs : HandleConfirm(t)

SpecSubmit == Init /\ [][NextSubmit]_vars

\* confirmations by the signed-in tab while an admin changes its principal's
\* role; the sightings are validated from the anonymous tab
NextConfirm ==
  \/ \E t \in Tabs, s \in Sightings : OpenDrawer(t, s)
  \/ \E t \in Tabs : CloseDrawer(t)
  \/ HandleValidate("t1")
  \/ GeolocationResolves("t1")
  \/ InsertValidation("t1")
  \/ TriggerRead("t1")
  \/ TriggerUpdate("t1")
  \/ \E t \in Tabs : HandleConfirm(t)
  \/ \E t \in Tabs : FetchRole(t)
  \/ \E c \in Consoles : OpenAdminPage(c)
  \/ \E c \in Consoles : CloseAdminPage(c)
  \/ \E c \in Consoles, newRole \in Roles : HandleRoleChange(c, "u1", newRole)

SpecConfirm == Init /\ [][NextConfirm]_vars

\* the admin page: role changes and role refreshes of its principal
NextAdmin ==
  \/ \E c \in Clients : FetchRole(c)
  \/ \E c \in Consoles : OpenAdminPage(c)
  \/ \E c \in Consoles : CloseAdminPage(c)
  \/ \E c \in Consoles, id \in Users, newRole \in Roles : HandleRoleChange(c, id, newRole)

SpecAdmin == Init /\ [][NextAdmin]_vars

\* invites by the admin, sign-ins of the principals, and role changes of the
\* invited principal in between
NextInvite ==
  \/ \E c \in Consoles : OpenAdminPage(c)
  \/ \E c \in Consoles : CloseAdminPage(c)
  \/ \E c \in Consoles, newRole \in Roles : HandleRoleChange(c, "u2", newRole)
  \/ \E c \in Consoles, input \in InviteInputs, atOnce \in BOOLEAN :
       HandleInvite(c, input, atOnce)
  \/ \E u \in Users : SignIn(u)

SpecInvite == Init /\ [][NextInvite]_vars

\* requests to the invite endpoint from every kind of caller, and sign-ins
NextApi ==
  \/ \E caller \in Callers, input \in InviteInputs, atOnce, mailFails \in BOOLEAN :
       Post(caller, input, atOnce, mailFails)
  \/ \E u \in Users : SignIn(u)

SpecApi == Init /\ [][NextApi]_vars

\* every signed-in principal sends inserts and updates to public.profiles
\* while the admin registers invites and the principal without account signs in
NextProfiles ==
  \/ \E user \in Users, id \in Users, newRole \in Roles : InsertProfile(user, id, newRole)
  \/ \E user \in Users, id \in Users, newRole \in Roles : SendUpdateProfile(user, id, newRole)
  \/ \E input \in InviteInputs, atOnce \in BOOLEAN : Post("u0", input, atOnce, FALSE)
  \/ SignIn("u2")

SpecProfiles == Init /\ [][NextProfiles]_vars
\* one AuthProvider: init, auth-state-change callbacks, role fetches, signOut
NextAuth ==
  \/ InitResolves
  \/ SignedIn
  \/ TokenRefreshed
  \/ \E fetched \in FetchedRoles(AuthUser) : FetchRoleResolves(fetched)
  \/ SignOutCalled
  \/ SignOutCompletes

SpecAuth == Init /\ [][NextAuth]_vars

\* one LiveMap: its initial load and the realtime events of the rows that
\* are inserted, updated and deleted meanwhile
NextMap ==
  \/ \E id \in Sightings : RowInserted(id)
  \/ \E id \in Sightings, status \in Statuses : RowUpdated(id, status)
  \/ \E id \in Sightings : RowDeleted(id)
  \/ SelectSightings
  \/ LoadSightingsResolves
  \/ EventDelivered

SpecMap == Init /\ [][NextMap]_vars

\* sightings come in through the report page and through one import run
NextReport ==
  \/ \E lat \in FormLats, lng \in FormLngs,
        activityType \in FormActivityTypes, notes \in FormNotes :
       SubmitReport(lat, lng, activityType, notes)
  \/ OpenReportPage
  \/ \E n \in 0..MaxRecords : StartImport(n)
  \/ \E line \in FileLines, fails \in BOOLEAN : ImportRow(line, fails)
  \/ FinishImport

SpecReport == Init /\ [][NextReport]_vars

\* one tab runs the legacy drawer, the other the current one
NextLegacy ==
  \/ \E t \in Tabs, s \in Sightings : OpenDrawer(t, s)
  \/ \E t \in Tabs : CloseDrawer(t)
  \/ \E off \in ObserverOffsets, uuid \in UUIDs : LegacyHandleValidate("t1", off, uuid)
  \/ Tick
  \/ \E d \in Devices : ClearStorage(d)
  \/ HandleValidate("t2")
  \/ GeolocationResolves("t2")
  \/ InsertValidation("t2")
  \/ TriggerRead("t2")
  \/ TriggerUpdate("t2")

SpecLegacy == Init /\ [][NextLegacy]_vars

Quiescent == \A x \in Sessions : pc[x] = "idle"

TypeOK ==
  /\ \A s \in Sightings :
       /\ sightings[s].status \in {"unverified", "verified", "active", "confirmed"}
       /\ sightings[s].validations_count \in Nat
  /\ \A t \in Tabs : validationError[t] \in ValidationErrors \cup {NULL}
  /\ deletes \in 0..MaxDeletes

(* ---------------------------------------------------------- properties *)
\* rows of the table (of any transaction) for a sighting and a device
RowsFor(sid, fp) ==
  {r \in validations : r.sighting_id = sid /\ r.device_fingerprint = fp}

DeviceIds == {visitorId[t] : t \in Tabs} \cup EarlierVisitorIds

\* C1: in every reachable state there is at most one validation row for every
\* (sighting id, device identifier) pair, whatever submissions were made.
C1_OneValidationPerDevice ==
  \A s \in Sightings, fp \in DeviceIds : Cardinality(RowsFor(s, fp)) <= 1

\* a second submission of a pair was made and refused, and the pair has its row
C1_Witness ==
  \E t \in Tabs :
    /\ validationError[t] = ErrDuplicate
    /\ Cardinality(RowsFor(drawer[t].id, visitorId[t])) = 1

\* the two tabs ran on one device and their last attempts for one sighting
\* with no validation of that device yet were in flight together; both are over
RacedOnOneDevice ==
  /\ visitorId["t1"] = visitorId["t2"]
  /\ drawer["t1"].id = drawer["t2"].id /\ drawer["t1"] # NoSighting
  /\ \A t \in Tabs : pc[t] = "idle" /\ hist[t].raced

\* C2: of two concurrent submissions for the same sighting from the same
\* device that both pass the proximity gate, exactly one ends in success and
\* the other in the duplicate-device rejection, in every interleaving.
C2_OneSuccessOneDuplicate ==
  RacedOnOneDevice =>
    \E a, b \in Tabs :
      /\ a # b
      /\ validationSuccess[a] /\ validationError[a] = NULL
      /\ ~validationSuccess[b] /\ validationError[b] = ErrDuplicate

C2_Witness ==
  /\ RacedOnOneDevice
  /\ validationSuccess["t2"]
  /\ validationError["t1"] = ErrDuplicate

\* number of validation rows that reference a sighting
TrueCount(s) == Cardinality(RowsOf(CommittedRows, s))

\* the threshold the specification states: 2 with media, 3 without
EffectiveThreshold(s) == IF sightings[s].media_len > 0 THEN 2 ELSE 3

\* C3: after any completed sequence of validation inserts, deletes
\* and manual confirms, validations_count of every sighting equals the number
\* of validation rows that reference it, confirmed sightings included.
C3_CountAlwaysEqualsRows ==
  Quiescent => \A s \in Sightings : sightings[s].validations_count = TrueCount(s)

\* C4: once a sighting is confirmed no step changes its status, and the
\* recomputation run for it writes nothing: the whole row stays as it is.
C4_ConfirmedIsFrozen ==
  [][\A s \in Sightings :
       sightings[s].status = "confirmed" => sightings'[s] = sightings[s]]_vars

\* a validation was admitted for a sighting already confirmed: its row is
\* there and the count did not follow
C4_Witness ==
  \E t \in Tabs :
    /\ validationSuccess[t] /\ pc[t] = "idle"
    /\ sightings[drawer[t].id].status = "confirmed"
    /\ drawer[t].status = "unverified"
    /\ sightings[drawer[t].id].validations_count < TrueCount(drawer[t].id)

\* C5: a verified sighting is never moved back to unverified by a
\* recomputation; it stays verified or becomes confirmed.
C5_VerifiedNeverRegresses ==
  [][\A s \in Sightings :
       sightings[s].status = "verified" =>
         sightings'[s].status \in {"verified", "confirmed"}]_vars

\* C6: the update of a recomputation leaves a sighting that is not confirmed
\* verified exactly when the count it wrote reaches the threshold (2 with
\* media, 3 without), and unverified otherwise.
C6_StatusFollowsThreshold ==
  [][\A x \in Sessions :
       (pc[x] = "update" /\ pc'[x] = "idle") =>
         LET s == txn[x].sighting_id
         IN sightings'[s].status # "confirmed" =>
              /\ sightings'[s].validations_count = txn[x].v_count
              /\ sightings'[s].status =
                   IF sightings'[s].validations_count >= EffectiveThreshold(s)
                     THEN "verified" ELSE "unverified"]_vars

\* s1 (no media) verified by its third validation, s2 (media) by its second
C6_Witness ==
  /\ sightings["s1"].status = "verified" /\ sightings["s1"].validations_count = 3
  /\ sightings["s2"].status = "verified" /\ sightings["s2"].validations_count = 2
  /\ Quiescent

\* the last attempts of the two tabs, from two devices, for one sighting were
\* in flight together and both were admitted; the sighting is not confirmed
RacedOnTwoDevices ==
  /\ visitorId["t1"] # visitorId["t2"]
  /\ drawer["t1"].id = drawer["t2"].id /\ drawer["t1"] # NoSighting
  /\ \A t \in Tabs : pc[t] = "idle" /\ hist[t].raced /\ validationSuccess[t]
  /\ sightings[drawer["t1"].id].status # "confirmed"

\* C7: after two validations from different devices were admitted
\* concurrently for a sighting that is not confirmed, the persisted count is
\* the true number of rows and the status is the one derived from it.
C7_ConcurrentRecomputeIsExact ==
  RacedOnTwoDevices =>
    LET s == drawer["t1"].id
    IN /\ sightings[s].validations_count = TrueCount(s)
       /\ sightings[s].status =
            IF TrueCount(s) >= EffectiveThreshold(s) THEN "verified" ELSE "unverified"

\* C8: recomputation is idempotent: a second run right after the first, with
\* the same validation rows, leaves the count and the status of the first.
C8_RecomputeIdempotent ==
  \A s \in Sightings :
    LET once == RecomputeSighting(sightings[s], TrueCount(s))
        twice == RecomputeSighting(once, TrueCount(s))
    IN /\ twice.validations_count = once.validations_count
       /\ twice.status = once.status

\* a state in which the first run changes count and status of a sighting
C8_Witness ==
  \E s \in Sightings :
    LET once == RecomputeSighting(sightings[s], TrueCount(s))
    IN /\ once.validations_count # sightings[s].validations_count
       /\ once.status # sightings[s].status

\* C9: an attempt that fails the 500 m check is rejected as out of range with
\* no insert attempted: no row, count and status unchanged, and the handler is
\* free for another attempt; an attempt that follows such a rejection and
\* passes the check is admitted like a first one: its row is inserted unless
\* the device has validated the sighting meanwhile.
C9_OutOfRangeThenRetry ==
  [][\A t \in Tabs :
       /\ (pc[t] = "locating" /\ validationError'[t] = ErrOutOfRange) =>
            /\ validations' = validations /\ sightings' = sightings
            /\ pc'[t] = "idle" /\ ~validating'[t] /\ ~validationSuccess'[t]
            /\ drawer'[t] = drawer[t]
       /\ (hist[t].retry /\ pc[t] = "insert" /\ pc'[t] # "insert") =>
            IF RowsFor(drawer[t].id, visitorId[t]) = {}
              THEN /\ pc'[t] = "trigger"
                   /\ Cardinality(RowsFor(drawer[t].id, visitorId[t])') = 1
              ELSE validationError'[t] = ErrDuplicate]_vars

\* a device rejected as out of range tried again in range and was admitted:
\* its row is written and the recomputation is running
C9_Witness ==
  \E t \in Tabs :
    /\ hist[t].retry /\ pc[t] \in {"trigger", "update"}
    /\ \E r \in RowsFor(drawer[t].id, visitorId[t]) : r.xmin = t

\* C10: an attempt for a (sighting, device) pair that has a row is rejected as
\* a duplicate: no row is added, no recomputation runs, count and status stay,
\* and the message differs from the out-of-range one.
C10_DuplicateRejected ==
  [][\A t \in Tabs :
       (/\ pc[t] = "insert" /\ pc'[t] # "insert"
        /\ RowsFor(drawer[t].id, visitorId[t]) # {}) =>
          /\ validations' = validations
          /\ sightings' = sightings
          /\ pc'[t] = "idle" /\ txn'[t] = NoTxn
          /\ ~validationSuccess'[t]
          /\ validationError'[t] = ErrDuplicate
          /\ validationError'[t] # ErrOutOfRange]_vars

\* a tab was told it had already validated, after the other was admitted
C10_Witness ==
  \E a, b \in Tabs :
    /\ a # b /\ visitorId[a] = visitorId[b] /\ drawer[a].id = drawer[b].id
    /\ validationError[a] = ErrDuplicate /\ pc[a] = "idle"
    /\ validationSuccess[b]

C12_ConfirmBypassesThreshold ==
  \A t \in Tabs :
    (/\ StoredRole(TabUser[t], profiles) \in {"trusted", "admin"}
     /\ role[t] = StoredRole(TabUser[t], profiles)
     /\ drawer[t] # NoSighting /\ pc[t] = "idle" /\ ~confirmSuccess[t]
     /\ drawer[t].status = "unverified"
     /\ sightings[drawer[t].id].status = "unverified"
     /\ sightings[drawer[t].id].validations_count = 0)
      => ConfirmButton(t)

C14_MatchingSignInPromotes ==
  [][\A u \in Users : SignIn(u) =>
       IF Invited(UserEmail[u], pendingInvites)
         THEN /\ profiles'[u] = "trusted"
              /\ ~Invited(UserEmail[u], pendingInvites')
         ELSE StoredRole(u, profiles) = "anonymous"
                => StoredRole(u, profiles') = "anonymous"]_vars

\* C15: the step that consumes an invite leaves no invite for that email, and
\* a later sign-in of the principal does not make them trusted again while no
\* new invite for the email is registered
C15_InviteOneShot ==
  [][\A u \in Users :
       /\ (u \notin consumed /\ u \in consumed')
            => ~Invited(UserEmail[u], pendingInvites')
       /\ (/\ u \in consumed
           /\ SignIn(u)
           /\ profiles[u] # "trusted"
           /\ ~Invited(UserEmail[u], pendingInvites))
            => profiles'[u] # "trusted"]_vars

\* promoted by an invite, set back to anonymous, signed in again: still
\* anonymous, and no invite for the email
C15_Witness ==
  \E u \in consumed :
    /\ [user |-> u, kind |-> "returning", before |-> "anonymous",
        after |-> "anonymous"] \in signIn
    /\ profiles[u] = "anonymous"
    /\ ~Invited(UserEmail[u], pendingInvites)

\* C16: every row the report page or the import has added to public.sightings
\* has status unverified and validations_count 0
C16_NewSightingsStartUnverified ==
  \A r \in created :
    /\ r.status = "unverified"
    /\ r.validations_count = 0

\* a row from the report page and a row from the import
C16_Witness ==
  /\ \E r \in created : r.via.by = "form"
  /\ \E r \in created : r.via.by = "import"

\* lines of the file whose record has been inserted / has an error entry
InsertedLines == {r.via.row : r \in {q \in created : q.via.by = "import"}}
ErrorLines == {importRun.errors[k].row : k \in 1..Len(importRun.errors)}

C20_ImportValidatesLikeLive ==
  [][\A line \in FileLines, fails \in BOOLEAN :
       ImportRow(line, fails) =>
         LET row == ParseRecord(line)
         IN ImportAccepts(row)
              <=> LiveAccepts(ParseFloat(row.lat), ParseFloat(row.lng),
                              row.activity_type, row.notes)]_vars

\* a row with no position of the validator in it
HasNoPosition(r) ==
  /\ "validator_lat" \in DOMAIN r => r.validator_lat = Null
  /\ "validator_lng" \in DOMAIN r => r.validator_lng = Null

\* C17: no row of public.validations holds a latitude or longitude of the
\* validator; what is kept of the position is is_within_range
C17_NoValidatorPositionStored ==
  \A r \in validations : HasNoPosition(r) /\ r.is_within_range \in BOOLEAN

\* the legacy handler has sent its row (with the rounded position) and was
\* refused, and the current handler has stored a row
C17_Witness ==
  /\ \E r \in issued :
       validationError["t1"] = ErrStore /\ drawer["t1"].id = r.sighting
  /\ \E r \in CommittedRows : r.id = <<"t2", r.sighting_id>>

\* C18: called again on the same device for the same sighting with no reset
\* of the storage in between, generateValidatorHash returns what it returned
\* before, and getDeviceFingerprint returns the same identifier at any time
C18_IdentifierIsStable ==
  [][/\ \A before \in issued, after \in issued' :
          (before.device = after.device /\ before.sighting = after.sighting)
            => after.id = before.id
     /\ visitorId' = visitorId]_vars


\* C21: an attempt whose position request is denied or times out ends in that
\* step: the in-progress flag is false again and the handler is free, no row
\* of public.validations is written, and the message shown is a rejection
\* other than the out-of-range one.
C21_GeolocationFailureEnds ==
  [][\A t \in Tabs :
       GeolocationFails(t) =>
         /\ ~validating'[t] /\ pc'[t] = "idle"
         /\ validations' = validations /\ sightings' = sightings
         /\ ~validationSuccess'[t]
         /\ validationError'[t] \in {ErrDenied, ErrLocation}
         /\ validationError'[t] # ErrOutOfRange]_vars

\* an attempt ended by a timeout of the position request: the message is
\* shown, the button is enabled again and the device has no row
C21_Witness ==
  \E t \in Tabs :
    /\ validationError[t] = ErrLocation /\ ~validating[t] /\ pc[t] = "idle"
    /\ drawer[t] # NoSighting
    /\ RowsFor(drawer[t].id, visitorId[t]) = {}
    /\ ValidateButton(t)


\* C22: a recomputation that has read the status as not confirmed and whose
\* update comes after a manual confirm of the same sighting has committed
\* leaves the status confirmed.
C22_LateUpdateKeepsConfirmed ==
  [][\A x \in Sessions :
       (/\ TriggerUpdate(x)
        /\ sightings[txn[x].sighting_id].status = "confirmed")
         => sightings'[txn[x].sighting_id].status = "confirmed"]_vars

\* a recomputation stands between its reads and its update, and the sighting
\* has been confirmed from a drawer since the status was read
C22_Witness ==
  \E x \in Sessions, t \in Tabs :
    /\ pc[x] = "update"
    /\ sightings[txn[x].sighting_id].status = "confirmed"
    /\ confirmSuccess[t] /\ drawer[t].id = txn[x].sighting_id


\* C23: in every state a sighting that is not confirmed has status verified
\* exactly when its stored validations_count reaches its threshold (2 with
\* media, 3 without), and unverified otherwise: no state shows one of the two
\* fields written without the other.
C23_CountAndStatusAgree ==
  \A s \in Sightings :
    sightings[s].status # "confirmed" =>
      sightings[s].status =
        IF sightings[s].validations_count >= EffectiveThreshold(s)
          THEN "verified" ELSE "unverified"

\* both directions have been written: s2 (media) was verified by its second
\* validation, and s1 is unverified after a recomputation that followed a delete
C23_Witness ==
  /\ sightings["s2"].status = "verified" /\ sightings["s2"].validations_count = 2
  /\ sightings["s1"].status = "unverified"
  /\ sightings["s1"].validations_count < Cardinality(EarlierValidations)
  /\ Quiescent


\* the stored role of who calls the endpoint, NULL without a session
CallerRole(caller) ==
  IF caller \in Users THEN StoredRole(caller, profiles) ELSE NULL

\* the email of the request is empty after trimming or has no '@'
Malformed(input) == Trim(input) = <<>> \/ ~Includes(Trim(input), "@")

C27_ErrorLeavesInvitesUnchanged ==
  [][\A caller \in Callers, input \in InviteInputs, atOnce, mailFails \in BOOLEAN :
       (Post(caller, input, atOnce, mailFails) /\ response'.status # 200) =>
         pendingInvites' = pendingInvites]_vars


\* C26: a step that makes a profile's role trusted or admin is an update sent
\* by a principal whose stored role is admin, or the creation of an account
\* that consumes a pending invite; no insert or update sent by another
\* principal has that effect.
C26_OnlyAdminOrInvitePromotes ==
  [][\A p \in Users :
       (profiles'[p] \in {"trusted", "admin"} /\ profiles'[p] # profiles[p]) =>
         \/ \E a \in Users : /\ StoredRole(a, profiles) = "admin"
                             /\ SendUpdateProfile(a, p, profiles'[p])
         \/ /\ ~HasAccount(p) /\ p \in consumed' /\ p \notin consumed
            /\ profiles'[p] = "trusted"]_vars


C29_NoRoleWithoutUser ==
  (auth.signOut = "done" /\ auth.fetches = 0 /\ auth.user = NULL)
    => auth.role = NULL


\* C30: the local list of the live map never holds two entries with the
\* same sighting id.
C30_NoDuplicateEntries ==
  \A i, j \in DOMAIN liveMap.sightings :
    liveMap.sightings[i].id = liveMap.sightings[j].id => i = j

\* C25: every surface shows a sighting of the map with status active as it
\* shows it with status verified, and shows none with status active,
\* verified or confirmed as unverified: marker, drawer, table, recent list.
C25_ActiveShownAsVerified ==
  \A k \in DOMAIN liveMap.sightings :
    LET status == liveMap.sightings[k].status
        isHistorical == IsHistorical[liveMap.sightings[k].id]
    IN /\ status = "active" =>
            /\ MarkerIcon(status, isHistorical) = MarkerIcon("verified", isHistorical)
            /\ DrawerStatus(status) = DrawerStatus("verified")
            /\ TableStatus(status, isHistorical) = TableStatus("verified", isHistorical)
            /\ RecentColor(status) = RecentColor("verified")
       /\ status \in {"active", "verified", "confirmed"} =>
            /\ MarkerIcon(status, isHistorical) # MarkerIcon("unverified", FALSE)
            /\ DrawerStatus(status) # DrawerStatus("unverified")
            /\ TableStatus(status, isHistorical) # TableStatus("unverified", FALSE)
            /\ RecentColor(status) # RecentColor("unverified")

====
